---- MODULE Spec2Model ----
(***************************************************************************)
(* The playback / capture engine of WorldVideoStudio                       *)
(* (src/app/components/WorldVideoStudio.tsx).                              *)
(*                                                                         *)
(* One state machine: the refs and React state of the component, the       *)
(* frame callbacks the browser holds, and one MediaRecorder + MediaStream  *)
(* per recording session.  Every action is one task of the browser's event *)
(* loop: a click handler, an animation-frame callback, a recorder "stop"   *)
(* event, or the unmount of the component.  Promise reactions (.then,      *)
(* .finally) are microtasks and run inside the task that settles the       *)
(* promise; React's re-render and effect clean-up after a state update are *)
(* part of the task that made the update.                                  *)
(***************************************************************************)
EXTENDS Integers, Sequences, FiniteSets, TLC

(* ------------------------------ bounds -------------------------------- *)
\* recording sessions (stream acquisitions) in one behaviour
MaxSessions == 3
\* animation-frame handles the browser hands out (reused once dead)
MaxHandles == 3
\* the device clock stops delivering frames after this timestamp (ms)
MaxTime == 6000
\* catalogs given to the timeline resolver on its own: up to MaxScenes scenes
MaxScenes == 3
\* ... each lasting 1..MaxDuration seconds
MaxDuration == 2
\* a frame timestamp is the previous one plus 1..MaxSkip frame periods
MaxSkip == 2
\* one frame period of the modelled display (ms)
FrameMs == 1000

(* ------------------------- program constants -------------------------- *)
\* a ref or a state cell holding null
Null == 0
\* scene.duration is in seconds, the clock in milliseconds
MsPerSecond == 1000
\* the catalog: scene durations in seconds, in order
SceneDurations == <<1, 2>>

PlaybackStates == {"idle", "playing", "rendering", "completed", "error"}

Sessions == 1..MaxSessions
Handles == 1..MaxHandles

VARIABLES
    mounted,            \* canvasRef.current is set: the component is mounted
    hasMediaRecorder,   \* "MediaRecorder" in window
    playbackState,      \* useState<PlaybackState>
    activeScene,        \* useState(0): the active-scene indicator
    closureActiveScene, \* activeScene as captured by the scheduled renderFrame
    videoUrl,           \* useState<string|null>: Null or the session whose blob it names
    liveUrls,           \* object URLs created and not revoked (by session)
    animationRef,       \* Null or the handle of the last requested frame
    pendingFrames,      \* frame callbacks requested, not yet run or cancelled
    startTimeRef,       \* <<>> (null) or <<first timestamp>>
    now,                \* timestamp of the last frame delivered
    recorderRef,        \* Null or the session whose MediaRecorder it holds
    streamRef,          \* Null or the session whose MediaStream it holds
    recorders,          \* per session: the MediaRecorder
    streams,            \* per session: the MediaStream's tracks
    nextSession,        \* sessions acquired so far
    sessionKind,        \* what the last start asked for (history)
    interrupted,        \* stop or unmount ran since the last start (history)
    startedFrom,        \* the playback state the last start was made in (history)
    lastOp,             \* the handler that ran last (history)
    painted,            \* the arguments of the last drawScene call (the surface)
    catalog,            \* timeline resolver on its own: the catalog given
    elapsedIn,          \* timeline resolver on its own: the elapsed value given
    resolution          \* timeline resolver on its own: what it painted, or NoFrame

vars == <<mounted, hasMediaRecorder, playbackState, activeScene, closureActiveScene,
          videoUrl, liveUrls, animationRef, pendingFrames, startTimeRef, now,
          recorderRef, streamRef, recorders, streams, nextSession, sessionKind,
          interrupted, startedFrom, lastOp, painted, catalog, elapsedIn, resolution>>

\* the variables of the timeline resolver taken on its own
resolverVars == <<catalog, elapsedIn, resolution>>

(* ----------------------------- helpers -------------------------------- *)
\* the first n durations of a catalog, in milliseconds
RECURSIVE SumMs(_, _)
SumMs(durations, n) ==
    IF n = 0 THEN 0 ELSE SumMs(durations, n - 1) + durations[n] * MsPerSecond

SumDurationsMs(n) == SumMs(SceneDurations, n)

totalDurationMs == SumDurationsMs(Len(SceneDurations))

\* a MediaRecorder nobody constructed
NoRecorder == [state |-> "none", onstop |-> "none", then |-> "none"]

\* recorder.state !== "inactive"
IsRecording(r) == r # Null /\ recorders[r].state = "recording"

\* clearAnimation nulling the ref without cancelAnimationFrame: the callback
\* stays with the browser
CancelledFrames_Keep(frames) == frames

\* cancelAnimationFrame(animationRef.current): the frames left pending
CancelledFrames(frames) == frames \ {animationRef}

\* requestAnimationFrame: a handle not in use
NewHandle(frames) == CHOOSE h \in Handles : h \notin frames

\* the scene whose window contains elapsed (0-based), walking the catalog
\* Walk with the window test written <= : a scene's window would include
\* its end
RECURSIVE Walk_InclusiveEnd(_, _, _, _)
Walk_InclusiveEnd(durations, i, cumulative, elapsed) ==
    IF i > Len(durations) THEN [currentIndex |-> 0, cumulative |-> cumulative]
    ELSE IF elapsed <= cumulative + durations[i] * MsPerSecond
         THEN [currentIndex |-> i - 1, cumulative |-> cumulative]
    ELSE Walk_InclusiveEnd(durations, i + 1, cumulative + durations[i] * MsPerSecond,
                           elapsed)

\* the for loop of renderFrame from scene i (1-based) on: currentIndex
\* (0-based, 0 when no scene matches) and cumulative as the loop leaves them
RECURSIVE Walk(_, _, _, _)
Walk(durations, i, cumulative, elapsed) ==
    IF i > Len(durations) THEN [currentIndex |-> 0, cumulative |-> cumulative]
    ELSE IF elapsed < cumulative + durations[i] * MsPerSecond
         THEN [currentIndex |-> i - 1, cumulative |-> cumulative]
    ELSE Walk(durations, i + 1, cumulative + durations[i] * MsPerSecond, elapsed)

ResolveFrom(i, cumulative, elapsed) ==
    Walk(SceneDurations, i, cumulative, elapsed).currentIndex

currentIndexAt(elapsed) == ResolveFrom(1, 0, elapsed)

\* the frame drawn at mount: drawScene(ctx, scenes[0], 0, 0)
FirstFrame ==
    [index |-> 0, sceneNum |-> 0, sceneDen |-> 1, globalNum |-> 0, globalDen |-> 1,
     elapsed |-> 0, final |-> FALSE]

\* FinalFrame with globalProgress computed as in the other branch
\* (elapsed / totalDurationMs) instead of the literal 1
FinalFrame_Unpinned(durations, elapsed) ==
    [index |-> Len(durations) - 1, sceneNum |-> 1, sceneDen |-> 1,
     globalNum |-> elapsed, globalDen |-> SumMs(durations, Len(durations)),
     elapsed |-> elapsed, final |-> TRUE]

\* the final frame: drawScene(ctx, scenes[scenes.length - 1], 1, 1)
FinalFrame(durations, elapsed) ==
    [index |-> Len(durations) - 1, sceneNum |-> 1, sceneDen |-> 1,
     globalNum |-> 1, globalDen |-> 1, elapsed |-> elapsed, final |-> TRUE]

\* a frame inside the timeline: drawScene(ctx, currentScene, sceneProgress,
\* globalProgress), the two progress values kept as fractions
SceneFrame(durations, elapsed) ==
    LET w == Walk(durations, 1, 0, elapsed)
    IN  [index |-> w.currentIndex,
         sceneNum |-> elapsed - w.cumulative,
         sceneDen |-> durations[w.currentIndex + 1] * MsPerSecond,
         globalNum |-> elapsed,
         globalDen |-> SumMs(durations, Len(durations)),
         elapsed |-> elapsed, final |-> FALSE]

\* what renderFrame draws for an elapsed value
FrameAt(durations, elapsed) ==
    IF elapsed >= SumMs(durations, Len(durations))
       THEN FinalFrame(durations, elapsed)
       ELSE SceneFrame(durations, elapsed)

\* no frame resolved yet
NoFrame == [index |-> 0 - 1]

disablePlayback == playbackState = "playing" \/ playbackState = "rendering"

stopDisabled == playbackState = "idle"

(* ------------------------------- Init --------------------------------- *)
\* "MediaRecorder" in window is a fact of the browser the page runs in: it is
\* chosen once and does not change while the component lives.
EngineInit ==
    /\ painted = FirstFrame
    /\ mounted = TRUE
    /\ hasMediaRecorder \in BOOLEAN
    /\ playbackState = "idle"
    /\ activeScene = 0
    /\ closureActiveScene = 0
    /\ videoUrl = Null
    /\ liveUrls = {}
    /\ animationRef = Null
    /\ pendingFrames = {}
    /\ startTimeRef = <<>>
    /\ now = 0
    /\ recorderRef = Null
    /\ streamRef = Null
    /\ recorders = [s \in Sessions |-> NoRecorder]
    /\ streams = [s \in Sessions |-> "none"]
    /\ nextSession = 0
    /\ sessionKind = "none"
    /\ interrupted = FALSE
    /\ startedFrom = "none"
    /\ lastOp = "mount"

Init ==
    /\ EngineInit
    /\ catalog = SceneDurations
    /\ elapsedIn = 0
    /\ resolution = NoFrame

(* ------------------------- startPlayback(record) ----------------------- *)
\* initialiseRecorder returns true: the capability is present and the
\* MediaRecorder constructor did not throw
CanRecord(ctorThrows) == hasMediaRecorder /\ ~ctorThrows

\* StateAfterStart with the capability branch returning false without
\* setPlaybackState("error"), as the other early returns of initialiseRecorder do
StateAfterStart_SilentWhenUnavailable(record, ctorThrows) ==
    IF ~record THEN "playing"
    ELSE IF CanRecord(ctorThrows) THEN "rendering"
    ELSE IF ~hasMediaRecorder THEN playbackState
    ELSE "error"

\* the state the start leaves: "rendering"/"playing" when the frame loop
\* starts, "error" when initialiseRecorder set it
StateAfterStart(record, ctorThrows) ==
    IF ~record THEN "playing"
    ELSE IF CanRecord(ctorThrows) THEN "rendering"
    ELSE "error"

\* the start goes on to requestAnimationFrame(renderFrame)
StartSchedulesFrame(record, ctorThrows) == ~record \/ CanRecord(ctorThrows)

\* canvas.captureStream(30) was called: past the capability check
StartAcquiresStream(record) == record /\ hasMediaRecorder

StartPlayback(record, ctorThrows) ==
    /\ mounted
    /\ ~disablePlayback
    /\ StartAcquiresStream(record) => nextSession < MaxSessions
    /\ LET cleared == CancelledFrames(pendingFrames)
           s == nextSession + 1
       IN  /\ startTimeRef' = <<>>
           /\ videoUrl' = Null
           /\ liveUrls' = liveUrls \ {videoUrl}
           /\ playbackState' = StateAfterStart(record, ctorThrows)
           /\ IF StartAcquiresStream(record)
                 THEN /\ nextSession' = s
                      /\ streams' = [streams EXCEPT ![s] = "live"]
                      /\ IF ctorThrows
                            THEN UNCHANGED <<recorders, recorderRef, streamRef>>
                            ELSE /\ recorders' = [recorders EXCEPT ![s] =
                                        [state |-> "recording", onstop |-> "none",
                                         then |-> "none"]]
                                 /\ recorderRef' = s
                                 /\ streamRef' = s
                 ELSE UNCHANGED <<nextSession, streams, recorders, recorderRef, streamRef>>
           /\ IF StartSchedulesFrame(record, ctorThrows)
                 THEN /\ animationRef' = NewHandle(cleared)
                      /\ pendingFrames' = cleared \cup {NewHandle(cleared)}
                      /\ closureActiveScene' = activeScene
                 ELSE /\ animationRef' = Null
                      /\ pendingFrames' = cleared
                      /\ UNCHANGED closureActiveScene
    /\ sessionKind' = IF record THEN "record" ELSE "play"
    /\ interrupted' = FALSE
    /\ startedFrom' = playbackState
    /\ lastOp' = IF record THEN "startRecord" ELSE "startPlay"
    /\ UNCHANGED <<mounted, hasMediaRecorder, activeScene, now, painted>>
    /\ UNCHANGED resolverVars

(* --------------------------- stopRecorder ----------------------------- *)
\* recorder.onstop = ...; recorder.stop(): the recorder goes inactive at
\* once, its stop event is delivered later; `then` is the reaction chained
\* on the returned promise
RequestStop(finalize, then) ==
    recorders' = [recorders EXCEPT ![recorderRef] =
                    [state |-> "stopping",
                     onstop |-> IF finalize THEN "finalize" ELSE "discard",
                     then |-> then]]

(* ------------------------- renderFrame(timestamp) ---------------------- *)
\* AnchorAfter without the null test: the anchor moves to every frame
AnchorAfter_Always(timestamp) == <<timestamp>>

\* if (startTimeRef.current === null) startTimeRef.current = timestamp
AnchorAfter(timestamp) ==
    IF startTimeRef = <<>> THEN <<timestamp>> ELSE startTimeRef

\* Elapsed measured from the time origin instead of the anchor
Elapsed_FromOrigin(timestamp) == timestamp

Elapsed(timestamp) ==
    IF startTimeRef = <<>> THEN 0 ELSE timestamp - startTimeRef[1]

\* if (activeScene !== currentIndex): activeScene is the value captured by
\* the renderFrame closure that startPlayback scheduled
IssuesUpdate(elapsed) == closureActiveScene # currentIndexAt(elapsed)

RenderFrame(h, timestamp) ==
    /\ mounted
    /\ h \in pendingFrames
    /\ timestamp <= MaxTime
    /\ now' = timestamp
    /\ painted' = FrameAt(SceneDurations, Elapsed(timestamp))
    /\ LET fired == pendingFrames \ {h}
           elapsed == Elapsed(timestamp)
       IN  IF elapsed >= totalDurationMs
           THEN /\ pendingFrames' = CancelledFrames(fired)
                /\ animationRef' = Null
                /\ startTimeRef' = <<>>
                /\ IF IsRecording(recorderRef)
                      THEN /\ RequestStop(TRUE, "completed")
                           /\ UNCHANGED playbackState
                      ELSE /\ playbackState' = "completed"
                           /\ UNCHANGED recorders
                /\ UNCHANGED activeScene
           ELSE /\ startTimeRef' = AnchorAfter(timestamp)
                /\ activeScene' = IF IssuesUpdate(elapsed)
                                     THEN currentIndexAt(elapsed) ELSE activeScene
                /\ animationRef' = NewHandle(fired)
                /\ pendingFrames' = fired \cup {NewHandle(fired)}
                /\ UNCHANGED <<playbackState, recorders>>
    /\ lastOp' = "tick"
    /\ UNCHANGED <<mounted, hasMediaRecorder, closureActiveScene, videoUrl, liveUrls,
                   recorderRef, streamRef, streams, nextSession, sessionKind, interrupted>>
    /\ UNCHANGED <<resolverVars, startedFrom>>

Tick == \E h \in Handles, k \in 1..MaxSkip : RenderFrame(h, now + k * FrameMs)

(* ----------------------------- stopPlayback --------------------------- *)
\* stopPlayback waits for the recorder's stop event before setting "idle"
StopWaitsForRecorder == playbackState = "rendering" /\ IsRecording(recorderRef)

StopPlayback ==
    /\ mounted
    /\ ~stopDisabled
    /\ pendingFrames' = CancelledFrames(pendingFrames)
    /\ animationRef' = Null
    /\ startTimeRef' = <<>>
    /\ IF StopWaitsForRecorder
          THEN /\ RequestStop(TRUE, "idle")
               /\ UNCHANGED playbackState
          ELSE /\ playbackState' = "idle"
               /\ UNCHANGED recorders
    /\ interrupted' = TRUE
    /\ lastOp' = "stop"
    /\ UNCHANGED <<mounted, hasMediaRecorder, activeScene, closureActiveScene, videoUrl,
                   liveUrls, now, recorderRef, streamRef, streams, nextSession,
                   sessionKind, painted>>
    /\ UNCHANGED <<resolverVars, startedFrom>>

(* ------------------- recorder.onstop (stop-complete) ------------------- *)
\* the tracks stopped by streamRef.current?.getTracks().forEach(stop)
TracksStopped(s) == [streams EXCEPT ![s] = "ended"]

OnStop(s) ==
    /\ recorders[s].state = "stopping"
    /\ recorders' = [recorders EXCEPT ![s].state = "retired"]
    /\ IF recorders[s].onstop = "finalize"
          THEN IF mounted
                  THEN /\ videoUrl' = s
                       /\ liveUrls' = (liveUrls \ {videoUrl}) \cup {s}
                  ELSE /\ liveUrls' = liveUrls \cup {s}
                       /\ UNCHANGED videoUrl
          ELSE UNCHANGED <<videoUrl, liveUrls>>
    /\ streams' = IF streamRef # Null THEN TracksStopped(streamRef) ELSE streams
    /\ streamRef' = Null
    /\ recorderRef' = Null
    /\ playbackState' = IF mounted /\ recorders[s].then # "none"
                           THEN recorders[s].then ELSE playbackState
    /\ lastOp' = "onstop"
    /\ UNCHANGED <<mounted, hasMediaRecorder, activeScene, closureActiveScene,
                   animationRef, pendingFrames, startTimeRef, now, nextSession,
                   sessionKind, interrupted, painted>>
    /\ UNCHANGED <<resolverVars, startedFrom>>

(* ------------------------- unmount (teardown) -------------------------- *)
Teardown ==
    /\ mounted
    /\ mounted' = FALSE
    /\ pendingFrames' = CancelledFrames(pendingFrames)
    /\ animationRef' = Null
    /\ IF IsRecording(recorderRef)
          THEN RequestStop(FALSE, "none")
          ELSE UNCHANGED recorders
    /\ startTimeRef' = <<>>
    /\ liveUrls' = liveUrls \ {videoUrl}
    /\ interrupted' = TRUE
    /\ lastOp' = "teardown"
    /\ UNCHANGED <<hasMediaRecorder, playbackState, activeScene, closureActiveScene,
                   videoUrl, now, recorderRef, streamRef, streams, nextSession,
                   sessionKind, painted>>
    /\ UNCHANGED <<resolverVars, startedFrom>>

(* ------------------------------- Next --------------------------------- *)
Start == \E record \in BOOLEAN, ctorThrows \in BOOLEAN : StartPlayback(record, ctorThrows)

StopComplete == \E s \in Sessions : OnStop(s)

Next == Start \/ Tick \/ StopPlayback \/ StopComplete \/ Teardown

Spec == Init /\ [][Next]_vars

(* ---------------- the timeline resolver taken on its own --------------- *)
\* the catalog and elapsed value of the worked example (4 s, 6 s, 2 s)
ExampleCatalog == <<4, 6, 2>>

\* non-empty catalogs of positive durations
Catalogs ==
    UNION {[1..n -> 1..MaxDuration] : n \in 1..MaxScenes} \cup {ExampleCatalog}

\* elapsed values are probed every half second, scene boundaries included,
\* up to one probe past the end of the timeline
ElapsedStepMs == MsPerSecond \div 2

ElapsedValues(durations) ==
    {k * ElapsedStepMs : k \in 0..(SumMs(durations, Len(durations)) \div ElapsedStepMs + 1)}

InitResolver ==
    /\ EngineInit
    /\ catalog \in Catalogs
    /\ elapsedIn \in ElapsedValues(catalog)
    /\ resolution = NoFrame

\* renderFrame's resolution and paint for the given catalog and elapsed value
ResolveStep ==
    /\ resolution = NoFrame
    /\ resolution' = FrameAt(catalog, elapsedIn)
    /\ UNCHANGED <<catalog, elapsedIn>>
    /\ UNCHANGED <<mounted, hasMediaRecorder, playbackState, activeScene,
                   closureActiveScene, videoUrl, liveUrls, animationRef, pendingFrames,
                   startTimeRef, now, recorderRef, streamRef, recorders, streams,
                   nextSession, sessionKind, interrupted, startedFrom, lastOp, painted>>

SpecResolver == InitResolver /\ [][ResolveStep]_vars

TypeOK ==
    /\ mounted \in BOOLEAN
    /\ playbackState \in PlaybackStates
    /\ activeScene \in 0..(Len(SceneDurations) - 1)
    /\ videoUrl \in {Null} \cup Sessions
    /\ liveUrls \subseteq Sessions
    /\ animationRef \in {Null} \cup Handles
    /\ pendingFrames \subseteq Handles
    /\ recorderRef \in {Null} \cup Sessions
    /\ streamRef \in {Null} \cup Sessions
    /\ nextSession \in 0..MaxSessions

(* ======================= claims about the engine ====================== *)
\* capture streams whose tracks have not been stopped
LiveStreams == {s \in Sessions : streams[s] = "live"}

\* encoders created and not yet fully retired (stop-complete callback run)
UnretiredRecorders == {s \in Sessions : recorders[s].state \in {"recording", "stopping"}}

\* encoders whose stop was requested and whose stop event is still to come
StoppingRecorders == {s \in Sessions : recorders[s].state = "stopping"}

\* C1: once an encoder stop has been requested for a session, the playback
\* state does not change to idle or completed before that session's
\* stop-complete callback has run (a step that leaves the session's stop
\* pending never moves the state to idle or completed).
C1_StateWaitsForStopComplete ==
    [][\A s \in Sessions :
          (mounted' /\ recorders[s].state = "stopping" /\ recorders'[s].state = "stopping")
             => ~(playbackState' # playbackState /\ playbackState' \in {"idle", "completed"})]_vars

\* C2: a stop() accepted while rendering settles the state in idle and in no
\* other state, and at the step that makes the state idle the session's one
\* artifact reference exists: rendering -> idle only with the session's
\* object URL live and held, and no stop-complete callback moves the state
\* away from the idle a stop() has just set.
C2_StopFromRenderingSettlesIdleWithArtifact ==
    [][/\ (mounted' /\ playbackState = "rendering" /\ playbackState' = "idle")
             => (videoUrl' = nextSession /\ liveUrls' = {nextSession})
       /\ (mounted' /\ lastOp = "stop" /\ playbackState = "idle" /\ lastOp' = "onstop")
             => playbackState' = "idle"]_vars

\* C3: at most one capture session is live: never more than one stream with
\* un-stopped tracks, never more than one encoder created and not retired.
C3_AtMostOneLiveSession ==
    /\ Cardinality(LiveStreams) <= 1
    /\ Cardinality(UnretiredRecorders) <= 1

\* C4: at most one object URL is live in every state, and a finalize creates
\* a new one only when every earlier one has been revoked.
C4_AtMostOneLiveUrl ==
    /\ [](Cardinality(liveUrls) <= 1)
    /\ [][\A s \in Sessions : (s \in liveUrls' /\ s \notin liveUrls) => liveUrls = {}]_vars

\* the last step was a start(record=true) that got past the capability check
\* and whose MediaRecorder constructor threw
FailedEncoderStart ==
    /\ lastOp = "startRecord"
    /\ nextSession # 0
    /\ recorders[nextSession].state = "none"

\* the last start was a start(record=true) that acquired its capture session
\* (stream and encoder): the session is nextSession
RecordSessionStarted ==
    /\ sessionKind = "record"
    /\ nextSession # 0
    /\ recorders[nextSession].state # "none"

\* C5: start(record=true) from idle with capture available leaves the state
\* rendering; once the frame loop of such a session has run to the end of
\* the timeline uninterrupted, its encoder has been stopped, and whenever the
\* state then says completed the session's one artifact reference exists.
C5_RecordSessionCompletesWithArtifact ==
    /\ [][(lastOp' = "startRecord" /\ playbackState = "idle"
              /\ nextSession' # nextSession /\ recorders'[nextSession'].state # "none")
            => playbackState' = "rendering"]_vars
    /\ [](( mounted /\ RecordSessionStarted /\ ~interrupted /\ pendingFrames = {})
            => recorders[nextSession].state \in {"stopping", "retired"})
    /\ [](( mounted /\ RecordSessionStarted /\ ~interrupted /\ pendingFrames = {}
              /\ playbackState = "completed")
            => (videoUrl = nextSession /\ liveUrls = {nextSession}))

\* C6: after a start(record=true) whose encoder construction threw, the state
\* is error, no tick is pending, and the stream acquired for it is released:
\* no stream with un-stopped tracks and no encoder handle remains.
C6_FailedEncoderStartReleasesStream ==
    FailedEncoderStart =>
        /\ playbackState = "error"
        /\ pendingFrames = {} /\ animationRef = Null
        /\ LiveStreams = {}
        /\ recorderRef = Null /\ streamRef = Null

\* C7: with the capture facility unavailable, a start(record=true) leaves the
\* state error with no tick pending and no stream or encoder handle live, and
\* the error state never has a tick pending again until a further start (no
\* retry on its own).
C7_CaptureUnavailableYieldsError ==
    ~hasMediaRecorder =>
        /\ lastOp = "startRecord" =>
              /\ playbackState = "error"
              /\ pendingFrames = {} /\ animationRef = Null
              /\ recorderRef = Null /\ streamRef = Null
              /\ LiveStreams = {} /\ UnretiredRecorders = {}
        /\ playbackState = "error" => (pendingFrames = {} /\ nextSession = 0)

\* C7's case: capture unavailable, a start(record=true) made after an earlier
\* playback session has run (the clock has advanced) has just ended in error
C7_Witness ==
    /\ ~hasMediaRecorder
    /\ lastOp = "startRecord"
    /\ playbackState = "error"
    /\ now >= totalDurationMs

\* streams a MediaRecorder was built on (the capture sessions' streams)
SessionStreams == {s \in LiveStreams : recorders[s].state # "none"}

\* C8: teardown cancels the pending tick and leaves no live resource: once
\* the component is unmounted no tick is pending, and when every callback
\* still due has run, no object URL is left un-revoked, no capture session's
\* stream has un-stopped tracks and no encoder is recording.
C8_TeardownLeavesNoLiveResource ==
    ~mounted =>
        /\ pendingFrames = {}
        /\ StoppingRecorders = {} =>
              /\ liveUrls = {}
              /\ SessionStreams = {}
              /\ UnretiredRecorders = {}

\* C9: the playback state is the source of truth for what runs: a tick is
\* pending only in playing or rendering, an encoder records only in rendering.
C9_StateIsSourceOfTruth ==
    mounted =>
        /\ pendingFrames # {} => playbackState \in {"playing", "rendering"}
        /\ (\E s \in Sessions : recorders[s].state = "recording")
              => playbackState = "rendering"

\* C10: a start takes effect only in idle, completed or error, and so never
\* restarts or replaces a running session (a pending frame loop or a
\* recording encoder); a stop is accepted exactly when the state is not idle.
C10_StartNeverReplacesRunningSession ==
    /\ [][lastOp' \in {"startRecord", "startPlay"}
            => /\ playbackState \in {"idle", "completed", "error"}
               /\ pendingFrames = {}
               /\ \A s \in Sessions : recorders[s].state # "recording"]_vars
    /\ [](mounted => ((ENABLED StopPlayback) <=> playbackState # "idle"))

(* ---------------------- claims, second group --------------------------- *)
\* the window [cumulativeStart_j, cumulativeStart_j + duration_j) of scene j
\* (1-based) of the resolver's catalog contains e
InWindow(j, e) == SumMs(catalog, j - 1) <= e /\ e < SumMs(catalog, j)

\* C13: for every catalog of positive durations and every elapsed e with
\* 0 <= e < total, the resolution is the one scene whose window contains e,
\* sceneProgress = (e - cumulativeStart) / duration lies in [0, 1) and
\* globalProgress = e / total; for 4 s, 6 s, 2 s and e = 5000 it is scene 1
\* with 1000/6000 and 5000/12000.
C13_ResolutionIsTheContainingScene ==
    (resolution.index >= 0 /\ elapsedIn < SumMs(catalog, Len(catalog))) =>
        LET i == resolution.index + 1
        IN  /\ i \in 1..Len(catalog)
            /\ InWindow(i, elapsedIn)
            /\ \A j \in 1..Len(catalog) : InWindow(j, elapsedIn) => j = i
            /\ resolution.sceneNum = elapsedIn - SumMs(catalog, i - 1)
            /\ resolution.sceneDen = catalog[i] * MsPerSecond
            /\ 0 <= resolution.sceneNum /\ resolution.sceneNum < resolution.sceneDen
            /\ resolution.globalNum = elapsedIn
            /\ resolution.globalDen = SumMs(catalog, Len(catalog))
            /\ ~resolution.final
            /\ (catalog = ExampleCatalog /\ elapsedIn = 5000) =>
                  /\ resolution.index = 1
                  /\ resolution.sceneNum = 1000 /\ resolution.sceneDen = 6000
                  /\ resolution.globalNum = 5000 /\ resolution.globalDen = 12000

\* C13's case: the worked example has been resolved
C13_Witness ==
    /\ catalog = ExampleCatalog
    /\ elapsedIn = 5000
    /\ resolution.index = 1
    /\ resolution.sceneNum = 1000

\* a start(record=false) made in idle is the last start and nothing has
\* interrupted the session it began
PlaySessionFromIdle ==
    /\ mounted
    /\ sessionKind = "play"
    /\ startedFrom = "idle"
    /\ ~interrupted

\* C11: start(record=false) from idle leaves the state playing; the tick
\* that ends the timeline of such a session sets completed; and while the
\* session runs no capture session is created and no artifact reference is
\* produced.
C11_PlaySessionCompletesWithoutCapture ==
    /\ [][(lastOp' = "startPlay" /\ playbackState = "idle")
            => playbackState' = "playing"]_vars
    /\ [][(PlaySessionFromIdle /\ lastOp' = "tick" /\ pendingFrames' = {})
            => playbackState' = "completed"]_vars
    /\ [][(PlaySessionFromIdle /\ pendingFrames # {}
              /\ lastOp' \notin {"startPlay", "startRecord", "stop", "teardown"})
            => /\ nextSession' = nextSession
               /\ liveUrls' \subseteq liveUrls
               /\ videoUrl' = videoUrl]_vars

\* C12: stop() while playing sets idle in the same step, cancels the pending
\* tick, resets the clock to unset and produces no artifact reference.
C12_StopWhilePlayingIsImmediate ==
    [][(lastOp' = "stop" /\ playbackState = "playing")
         => /\ playbackState' = "idle"
            /\ pendingFrames' = {} /\ animationRef' = Null
            /\ startTimeRef' = <<>>
            /\ liveUrls' = liveUrls /\ videoUrl' = videoUrl
            /\ recorders' = recorders]_vars

\* C12's case: in a browser without MediaRecorder a preview was started, a
\* frame was painted inside the timeline and a stop() then ran: the state it
\* ran in was playing
C12_Witness ==
    /\ ~hasMediaRecorder
    /\ lastOp = "stop"
    /\ sessionKind = "play"
    /\ playbackState = "idle"
    /\ now > 0 /\ now < totalDurationMs
    /\ ~painted.final
    /\ pendingFrames = {} /\ startTimeRef = <<>>

\* the step is a tick whose elapsed value has reached the total duration
FinalTickStep ==
    /\ lastOp' = "tick"
    /\ startTimeRef # <<>>
    /\ now' - startTimeRef[1] >= totalDurationMs

\* C14: a tick with elapsed >= total paints the last scene at
\* sceneProgress 1 and globalProgress 1, schedules no further tick and
\* unsets the clock; over the ticks of one session globalProgress never
\* decreases, is 0 at the first tick and 1 at the final one.
C14_FinalTickPinsLastScene ==
    /\ [][FinalTickStep
            => /\ painted'.index = Len(SceneDurations) - 1
               /\ painted'.sceneNum = painted'.sceneDen
               /\ painted'.globalNum = painted'.globalDen
               /\ pendingFrames' = {} /\ animationRef' = Null
               /\ startTimeRef' = <<>>]_vars
    /\ [][(lastOp' = "tick" /\ startTimeRef = <<>>) => painted'.globalNum = 0]_vars
    /\ [][(lastOp' = "tick" /\ startTimeRef # <<>>)
            => painted'.globalNum * painted.globalDen
                  >= painted.globalNum * painted'.globalDen]_vars

\* C14's case: a session ran to a tick past the end of the timeline, which
\* painted the final frame and left the state completed
C14_Witness ==
    /\ lastOp = "tick"
    /\ painted.final
    /\ painted.elapsed > totalDurationMs
    /\ painted.index = Len(SceneDurations) - 1
    /\ playbackState = "completed"

\* the step is the stop-complete callback of session s
StopCompleteStep(s) ==
    recorders[s].state = "stopping" /\ recorders'[s].state = "retired"

\* C15: the stop-complete callback of a session touches only that session:
\* it never stops the tracks or nulls the handles of a session started
\* later, so no encoder is ever left recording with its handle lost.  (The
\* chunk buffer is empty between tasks: each recorder delivers its one chunk
\* in the task that runs its onstop.)
C15_StopCompleteTouchesOwnSessionOnly ==
    /\ [][\A s \in Sessions, later \in Sessions :
            (StopCompleteStep(s) /\ later > s)
               => /\ streams'[later] = streams[later]
                  /\ recorderRef = later => recorderRef' = later
                  /\ streamRef = later => streamRef' = later]_vars
    /\ [](\A s \in Sessions : recorders[s].state = "recording" => recorderRef = s)

\* C16: after every tick with elapsed < total the active-scene indicator
\* equals the index of the scene that tick painted.
C16_IndicatorFollowsPaintedScene ==
    (mounted /\ lastOp = "tick" /\ ~painted.final) => activeScene = painted.index

\* C17: when a session's stop has completed the session is torn down: its
\* stream's tracks are stopped and the stream and encoder handles are null;
\* hence in idle, completed or error with no encoder stop pending no stream
\* or encoder handle is held.
C17_StopCompleteTearsSessionDown ==
    /\ [][\A s \in Sessions :
            StopCompleteStep(s)
               => /\ streams'[s] = "ended"
                  /\ streamRef' = Null /\ recorderRef' = Null]_vars
    /\ []((mounted /\ playbackState \in {"idle", "completed", "error"}
              /\ StoppingRecorders = {})
            => (recorderRef = Null /\ streamRef = Null))

\* C18: at most one frame callback is pending in every reachable state: a
\* start leaves only the frame it scheduled, a tick only its successor, and
\* stop, completion and teardown leave none.
C18_AtMostOneFramePending ==
    /\ [](Cardinality(pendingFrames) <= 1 /\ pendingFrames \subseteq {animationRef})
    /\ [][lastOp' \in {"stop", "teardown"} => pendingFrames' = {}]_vars
    /\ [][(lastOp' = "tick" /\ painted'.final) => pendingFrames' = {}]_vars

\* C18's case: in a session started after an earlier one ran to completion,
\* a tick has fired and rescheduled exactly one successor
C18_Witness ==
    /\ lastOp = "tick"
    /\ startedFrom = "completed"
    /\ painted.elapsed >= FrameMs
    /\ Cardinality(pendingFrames) = 1
    /\ animationRef \in pendingFrames

\* C19: after stop() or teardown no tick is pending, none runs and nothing
\* is painted until the next start.
C19_CancelIsImmediate ==
    /\ [](interrupted => pendingFrames = {})
    /\ [][(interrupted /\ interrupted')
            => (lastOp' # "tick" /\ painted' = painted)]_vars

\* C19's case: stop() arrived while a tick of a running session was
\* scheduled, and the callback of the stopped encoder ran afterwards
C19_Witness ==
    /\ interrupted
    /\ lastOp = "onstop"
    /\ mounted
    /\ now >= FrameMs
    /\ ~painted.final

\* C20: within a session the elapsed value of each painted frame is at least
\* that of the frame painted before it.
C20_ElapsedNeverDecreases ==
    [][(lastOp' = "tick" /\ startTimeRef # <<>>)
         => painted'.elapsed >= painted.elapsed]_vars

\* C20's case: a third tick of one session, painted later than two earlier
\* frames of the same session
C20_Witness ==
    /\ lastOp = "tick"
    /\ startTimeRef # <<>>
    /\ painted.elapsed >= 2 * FrameMs
    /\ ~painted.final

\* the step is a tick with elapsed < total duration
SceneTickStep == lastOp' = "tick" /\ ~painted'.final

\* C21: a tick with elapsed < total issues an active-scene update exactly
\* when the resolved index differs from the indicator's current value; when
\* they are equal it issues none.
C21_UpdateOnlyOnChange ==
    [][SceneTickStep
         => (IssuesUpdate(painted'.elapsed) <=> activeScene # painted'.index)]_vars

\* a start, in either mode
StartOps == {"startPlay", "startRecord"}

\* C22: the clock anchor is unset whenever no tick is pending, and after
\* every start, stop and teardown; so the first tick of every session
\* computes elapsed 0 and paints scene 0 at sceneProgress 0.
C22_AnchorUnsetWhenNoTickPending ==
    /\ [](pendingFrames = {} => startTimeRef = <<>>)
    /\ [][lastOp' \in StartOps \cup {"stop", "teardown"} => startTimeRef' = <<>>]_vars
    /\ [][(lastOp' = "tick" /\ (startTimeRef = <<>> \/ lastOp \in StartOps))
            => /\ painted'.elapsed = 0
               /\ painted'.index = 0
               /\ painted'.sceneNum = 0]_vars

\* C22's case: the first tick of a session started after an earlier session
\* ran to completion
C22_Witness ==
    /\ lastOp = "tick"
    /\ startedFrom = "completed"
    /\ now >= 2 * FrameMs
    /\ painted.elapsed = 0
    /\ startTimeRef = <<now>>

====
